---------------------------- MODULE Spec2Model ----------------------------
(***************************************************************************)
(* Order fulfilment back end: the order controller (createOrder,           *)
(* verifyPayment, saveOrder), its store, and the WhatsApp/SMS notification *)
(* service with its session life cycle.                                    *)
(*                                                                         *)
(* Sources: src/controllers/orderController.js,                            *)
(*          src/controllers/whatsappController.js (lines 1-369),           *)
(*          src/config/db.js (lines 1-50).                                 *)
(*                                                                         *)
(* JavaScript runs one task at a time: a handler runs without interruption *)
(* from one await to the next, and the continuations of a settled promise  *)
(* run before the next event or timer.  An action of this model is one     *)
(* such run.  Requests read the session and never write it, and no handler *)
(* reads the store, so one request in flight at a time (req) shows every   *)
(* behaviour of a request; the session's events interleave with it.        *)
(***************************************************************************)
EXTENDS Integers, Sequences, FiniteSets, TLC

\* The store accepts new requests while it holds fewer records than this.
MaxOrders == 2

\* Phone numbers have at most this many characters.
MaxPhoneLen == 3

\* whatsappController.js:121  initializeWithRetry(maxRetries = 3, ...)
MaxRetries == 3

\* whatsappController.js:162  for (let i = 0; i < 30; i++)
WaitPolls == 30

(***************************************************************************)
(* Values of a request body.  Strings whose text matters (ids, the secret) *)
(* are sequences of character codes; the empty sequence stands for a       *)
(* missing field (undefined, null and "" are all falsy in the checks).     *)
(***************************************************************************)
Absent == <<>>

\* "o1", "p1", "p2" and the separator "|" of orderController.js:186
OrderId1 == <<111, 49>>
PayId1 == <<112, 49>>
PayId2 == <<112, 50>>
Pipe == <<124>>

\* process.env.RAZORPAY_KEY_SECRET, and a key the server does not hold
KeySecret == <<115, 107>>
OtherSecret == <<120, 120>>

AddressFields == {"fullName", "street", "city", "state", "zipCode", "email", "phone"}

\* An address: undefined, or an object whose fields are a string, a number or missing.
AddrUndefined == [kind |-> "undefined", f |-> [x \in AddressFields |-> "undefined"]]
AddrOK == [kind |-> "object", f |-> [x \in AddressFields |-> "string"]]
AddrNoPhone == [kind |-> "object",
                f |-> [x \in AddressFields |-> IF x = "phone" THEN "undefined" ELSE "string"]]
AddrNumZip == [kind |-> "object",
               f |-> [x \in AddressFields |-> IF x = "zipCode" THEN "number" ELSE "string"]]

\* Items: undefined, or an array of {price, quantity}.
NoItems == [kind |-> "undefined", elems |-> <<>>]
ItemsQ0 == [kind |-> "array", elems |-> <<[price |-> 5, quantity |-> 0]>>]
Items2 == [kind |-> "array",
           elems |-> <<[price |-> 5, quantity |-> 2], [price |-> 3, quantity |-> 1]>>]

(***************************************************************************)
(* crypto.createHmac('sha256', key).update(msg).digest('hex'): a keyed     *)
(* hash of the message, here a polynomial hash seeded with the key.  The   *)
(* digest is a non-empty string: a number >= 1 (0 is the missing           *)
(* signature).                                                             *)
(***************************************************************************)
RECURSIVE HashFold(_, _)
HashFold(h, s) ==
    IF s = <<>> THEN h ELSE HashFold((h * 33 + Head(s)) % 251, Tail(s))

Hmac(key, msg) == 1 + HashFold(HashFold(7, key), msg)

\* orderController.js:184-187
GeneratedSignature(b) ==
    Hmac(KeySecret, b.razorpay_order_id \o Pipe \o b.razorpay_payment_id)

ValidSig1 == Hmac(KeySecret, OrderId1 \o Pipe \o PayId1)
ForgedSig == Hmac(OtherSecret, OrderId1 \o Pipe \o PayId1)

\* orderController.js:189
SignatureMatches_NoCheck(b) == b.razorpay_signature # 0
SignatureMatches(b) == GeneratedSignature(b) = b.razorpay_signature

(***************************************************************************)
(* Request bodies.  One shape for the three endpoints; an endpoint ignores *)
(* the fields it does not read.                                            *)
(***************************************************************************)
Body(it, ad, pm, tot, pid, st, roid, rpid, sig) ==
    [items |-> it, address |-> ad, paymentMethod |-> pm, total |-> tot,
     paymentId |-> pid, status |-> st,
     razorpay_order_id |-> roid, razorpay_payment_id |-> rpid, razorpay_signature |-> sig]

NoBody == Body(NoItems, AddrUndefined, "", 0, Absent, "", Absent, Absent, 0)

\* A well-formed order and proof; each set of bodies below is the well-formed body
\* of its endpoint and the bodies that differ from it in one respect.
GoodCreate == Body(Items2, AddrOK, "cod", 13, Absent, "", Absent, Absent, 0)
GoodVerify == Body(Items2, AddrOK, "", 13, Absent, "", OrderId1, PayId1, ValidSig1)
GoodSave == Body(Items2, AddrOK, "prepaid", 13, PayId1, "confirmed", Absent, Absent, 0)

CreateBodies ==
    { [GoodCreate EXCEPT !.paymentMethod = pm] : pm \in {"", "prepaid", "cod", "upi"} }
    \cup { [GoodCreate EXCEPT !.address = ad] : ad \in {AddrUndefined, AddrNoPhone, AddrNumZip} }
    \cup { [GoodCreate EXCEPT !.items = it, !.total = tot] :
             it \in {NoItems, ItemsQ0, Items2}, tot \in {0, 5, 13} }

VerifyBodies ==
    { [GoodVerify EXCEPT !.razorpay_signature = sig] : sig \in {0, ValidSig1, ForgedSig} }
    \cup { [GoodVerify EXCEPT !.razorpay_payment_id = rpid] : rpid \in {Absent, PayId2} }
    \cup { [GoodVerify EXCEPT !.razorpay_order_id = Absent] }
    \cup { [GoodVerify EXCEPT !.address = ad] : ad \in {AddrUndefined, AddrNoPhone} }
    \cup { [GoodVerify EXCEPT !.items = NoItems] }
    \cup { [GoodVerify EXCEPT !.total = tot] : tot \in {0, 5} }

SaveBodies ==
    { [GoodSave EXCEPT !.paymentMethod = pm] : pm \in {"", "prepaid", "cod"} }
    \cup { [GoodSave EXCEPT !.paymentId = Absent] }
    \cup { [GoodSave EXCEPT !.status = st] : st \in {"", "pending"} }
    \cup { [GoodSave EXCEPT !.address = ad] : ad \in {AddrUndefined, AddrNoPhone} }
    \cup { [GoodSave EXCEPT !.items = NoItems] }
    \cup { [GoodSave EXCEPT !.total = 0] }

(***************************************************************************)
(* What a send returns.  A JavaScript value is undefined, null, a string,  *)
(* or an object with an id property (itself undefined, null or a string).  *)
(***************************************************************************)
UndefinedProp == [t |-> "undefined", s |-> <<>>]
JsUndefined == [t |-> "undefined", s |-> <<>>, id |-> UndefinedProp]
JsNull == [t |-> "null", s |-> <<>>, id |-> UndefinedProp]
JsString(str) == [t |-> "string", s |-> str, id |-> UndefinedProp]
JsObject(idProp) == [t |-> "object", s |-> <<>>, id |-> idProp]

\* The value of a property read: a primitive as a value.
PropValue(prop) == [t |-> prop.t, s |-> prop.s, id |-> UndefinedProp]

\* JavaScript truthiness, as || tests it (whatsappController.js:271)
Truthy(v) == v.t = "object" \/ (v.t = "string" /\ v.s # <<>>)

\* "m1", the id of a message; "SM", a Twilio sid; "msg_1", `msg_${Date.now()}`
MsgId1 == <<109, 49>>
Sid1 == <<83, 77>>
SynthesizedId == <<109, 115, 103, 95, 49>>

\* What client.sendMessage may resolve with: its result is null or undefined, or an
\* object whose id is missing, null, a string, or an object with or without an id.
TransportResults ==
    [t : {"undefined", "null"}, id : {JsUndefined}]
    \cup [t : {"object"},
          id : {JsUndefined, JsNull, JsString(<<>>), JsString(MsgId1),
                JsObject(UndefinedProp), JsObject([t |-> "string", s |-> MsgId1])}]

\* whatsappController.js:271  result?.id?.id || result?.id || `msg_${Date.now()}`
MessageId_NoFallback(result) ==
    IF result.t = "object" /\ result.id.t = "object" THEN PropValue(result.id.id)
    ELSE JsUndefined
MessageId(result) ==
    LET id == IF result.t = "object" THEN result.id ELSE JsUndefined
        idId == IF id.t = "object" THEN PropValue(id.id) ELSE JsUndefined
    IN  IF Truthy(idId) THEN idId
        ELSE IF Truthy(id) THEN id
        ELSE JsString(SynthesizedId)

\* The result objects: whatsappController.js:198-202, 269-274 and 205-209, 244-248,
\* 283-287.
Success(messageId) == [success |-> TRUE, error |-> "", messageId |-> messageId]
Failure(error) == [success |-> FALSE, error |-> error, messageId |-> JsUndefined]
NoResult == [success |-> FALSE, error |-> "", messageId |-> JsUndefined]

(***************************************************************************)
(* State.                                                                  *)
(***************************************************************************)
VARIABLES
    store,                  \* the "orders" collection: the records inserted, in order
    db,                     \* config/db.js: "unset" until connect() succeeds, then "connected"
    running,                \* FALSE once the process has exited
    req,                    \* the request in flight, or the last one answered
    verifiedProofs,         \* history: the proofs verifyPayment found valid
    client,                 \* WhatsAppService.client: "null" or "constructed"
    isReady,                \* WhatsAppService.isReady
    initializationPromise,  \* "pending", "resolved" or "rejected"
    retry,                  \* initializeWithRetry: [pc, i]
    initCalls,              \* history: calls of client.initialize()
    sessionCleared,         \* history: deletions of the session directory
    destroyCall,            \* destroy(): [pc, signal, initCalls], see NoDestroy
    initializeLog,          \* history: the clients constructed and retry loops started,
                            \* the promise the latest call after the first returned,
                            \* the client.initialize() calls that rejected and resolved,
                            \* whether isReady was true at an auth_failure event since
                            \* the last ready or disconnected event
    phoneNumber,            \* the phone number handed to the two normalizations
    recipientNumber,        \* sendTextSMS: the number handed to Twilio, or Absent
    chatId,                 \* sendMessage: the chat id handed to the transport, or Absent
    recipientAgain,         \* sendTextSMS applied to recipientNumber, or Absent
    chatIdAgain             \* sendMessage applied to chatId, or Absent

orderVars == <<store, db, running, req, verifiedProofs>>
sessionVars ==
    <<client, isReady, initializationPromise, retry, initCalls, sessionCleared, initializeLog>>
phoneVars == <<phoneNumber, recipientNumber, chatId, recipientAgain, chatIdAgain>>
vars == <<store, db, running, req, verifiedProofs,
          client, isReady, initializationPromise, retry, initCalls, sessionCleared,
          initializeLog, destroyCall,
          phoneNumber, recipientNumber, chatId, recipientAgain, chatIdAgain>>

\* No destroy() has been called.  pc: "awaiting" while client.destroy() is awaited
\* (line 346), then "resolved" or "rejected"; signal: the call is the one of the
\* SIGINT/SIGTERM handler; initCalls: the value of initCalls when it resolved.
NoDestroy == [pc |-> "none", signal |-> FALSE, initCalls |-> 0]

Channels == 1 .. 3          \* 1 admin chat, 2 customer chat, 3 customer SMS

NoReport == <<"none", "none", "none">>

\* A request as it arrives: nothing done yet.
NewReq(op, b) ==
    [op |-> op, body |-> b, pc |-> "start", ch |-> 0, poll |-> 0, status |-> 0,
     base |-> Len(store), inserted |-> FALSE, storeFailed |-> FALSE,
     attempted |-> {}, gatewayCalls |-> 0, report |-> NoReport,
     result |-> NoResult, numberExists |-> "unknown", transport |-> "notCalled",
     readyAtCall |-> FALSE, gatewayResult |-> "none", error |-> ""]

NoReq == [NewReq("none", NoBody) EXCEPT !.pc = "idle", !.base = 0]

\* res.status(code).json(...)
Respond(r, code) == [r EXCEPT !.pc = "done", !.status = code]

\* The catch block of a handler (orderController.js:155-158, 215-218, 256-259): 500,
\* with the message of the error appended to the text, except in saveOrder.
Catch(r, message) ==
    [Respond(r, 500) EXCEPT
       !.error = IF r.op = "save" THEN "Failed to save order to database" ELSE message]

(***************************************************************************)
(* orderController.js: validation.                                         *)
(***************************************************************************)
\* orderController.js:109  items.reduce((sum, item) => sum + item.price * (item.quantity || 1), 0)
RECURSIVE CalculatedTotal(_)
CalculatedTotal(elems) ==
    IF elems = <<>> THEN 0
    ELSE LET item == Head(elems)
             qty == IF item.quantity = 0 THEN 1 ELSE item.quantity
         IN  item.price * qty + CalculatedTotal(Tail(elems))

\* orderController.js:96
MissingCreateFields(b) ==
    \/ b.items.kind = "undefined"
    \/ b.address.kind = "undefined"
    \/ b.paymentMethod = ""
    \/ b.total = 0

\* orderController.js:101-106
BadAddressField(b) == \E x \in AddressFields : b.address.f[x] # "string"

\* orderController.js:96-112: the request is answered 400 before the try block
CreateRejects(b) ==
    \/ MissingCreateFields(b)
    \/ BadAddressField(b)
    \/ CalculatedTotal(b.items.elems) # b.total

\* orderController.js:174-180
VerifyRejects(b) ==
    \/ b.razorpay_order_id = Absent \/ b.razorpay_payment_id = Absent \/ b.razorpay_signature = 0
    \/ b.items.kind = "undefined" \/ b.address.kind = "undefined" \/ b.total = 0

\* orderController.js:227-233
SaveRejects(b) ==
    \/ b.items.kind = "undefined" \/ b.address.kind = "undefined"
    \/ b.paymentMethod = "" \/ b.total = 0 \/ b.status = ""
    \/ b.address.f["phone"] # "string"

(***************************************************************************)
(* orderController.js: the record each path hands to saveOrderToDatabase.  *)
(* createdAt (line 63) is left out: nothing reads it.                      *)
(***************************************************************************)
OrderRecord(b, pm, pid, roid, st) ==
    [items |-> b.items, address |-> b.address, paymentMethod |-> pm, total |-> b.total,
     paymentId |-> pid, razorpayOrderId |-> roid, status |-> st]

\* orderController.js:132-139
CodOrderData_Pending(b) == OrderRecord(b, b.paymentMethod, Absent, Absent, "pending")
CodOrderData(b) == OrderRecord(b, b.paymentMethod, Absent, Absent, "confirmed")

\* orderController.js:191-199
VerifiedOrderData(b) ==
    OrderRecord(b, "prepaid", b.razorpay_payment_id, b.razorpay_order_id, "confirmed")

\* orderController.js:236-243
SavedOrderData(b) ==
    OrderRecord(b, b.paymentMethod,
                IF b.paymentMethod = "prepaid" THEN b.paymentId ELSE Absent,
                Absent, b.status)

OrderData(r) ==
    CASE r.op = "create" -> CodOrderData(r.body)
      [] r.op = "verify" -> VerifiedOrderData(r.body)
      [] OTHER -> SavedOrderData(r.body)

(***************************************************************************)
(* saveOrderToDatabase (orderController.js:58-68) with getDb               *)
(* (config/db.js:32-37), and the handlers' catch blocks.                   *)
(***************************************************************************)
\* The catch block of the handler: lines 155-158, 215-218, 256-259.
StoreFailure_Swallowed(r) == [r EXCEPT !.storeFailed = TRUE, !.pc = "enter", !.ch = 1]
StoreFailure(r) == [Catch(r, "store error") EXCEPT !.storeFailed = TRUE]

\* getDb() throws when db is unset; otherwise insertOne is issued and awaited.
BeginSave_NoAwait(r) ==
    IF db = "connected" THEN [r EXCEPT !.pc = "enter", !.ch = 1] ELSE StoreFailure(r)
BeginSave(r) ==
    IF db = "connected" THEN [r EXCEPT !.pc = "insert"] ELSE StoreFailure(r)

(***************************************************************************)
(* whatsappController.js: sendMessage and waitForReady, as the positions   *)
(* of the request between awaits:                                          *)
(*   "enter"      about to call sendMessage / sendTextSMS for channel ch   *)
(*   "init"       waitForReady awaits initializationPromise (line 159)     *)
(*   "poll"       waitForReady sleeps in iteration poll (line 164)         *)
(*   "registered" awaits client.isRegisteredUser (line 241)                *)
(*   "getChat"    awaits client.getChatById (line 253)                     *)
(*   "send"       awaits client.sendMessage (line 264)                     *)
(*   "smsCreate"  awaits client.messages.create (line 191)                 *)
(***************************************************************************)
\* orderController.js:78-80: the phone each send is given; the admin's is a literal.
PhoneIsString(r) == r.ch = 1 \/ r.body.address.f["phone"] = "string"

\* orderController.js:78-86, 147-151, 207-211, 250-254: a send has returned its result
\* o; the next send starts, or after the last the handler answers 200.
Finish(r, o) ==
    LET r1 == [r EXCEPT !.report[r.ch] = IF o.success THEN "Sent" ELSE "Failed",
                        !.result = o, !.poll = 0]
    IN  IF r.ch < 3 THEN [r1 EXCEPT !.pc = "enter", !.ch = r.ch + 1]
        ELSE Respond(r1, 200)

\* whatsappController.js:218-241: waitForReady has returned true.
\* phoneNumber.replace throws on a phone that is no string; the catch of line 281
\* turns every throw into a failed result.
AfterWait(r) ==
    IF client = "null" THEN Finish(r, Failure("WhatsApp client not initialized"))
    ELSE IF ~PhoneIsString(r)
         THEN Finish(r, Failure("phoneNumber.replace is not a function"))
    ELSE [r EXCEPT !.pc = "registered", !.poll = 0]

\* whatsappController.js:162-167: the loop at iteration i, isReady being ready.
PollLoop_Unbounded(r, i, ready) ==
    IF ready THEN AfterWait(r)
    ELSE [r EXCEPT !.pc = "poll", !.poll = IF i > WaitPolls THEN WaitPolls ELSE i]

PollLoop(r, i, ready) ==
    IF i >= WaitPolls THEN Finish(r, Failure("WhatsApp client not ready after waiting"))
    ELSE IF ready THEN AfterWait(r)
    ELSE [r EXCEPT !.pc = "poll", !.poll = i]

\* whatsappController.js:156-160.  Awaiting a rejected promise throws its reason: the
\* error of line 86, or the error the executor caught (line 114).
WaitForReady(r) ==
    IF isReady THEN AfterWait(r)
    ELSE CASE initializationPromise = "pending" -> [r EXCEPT !.pc = "init"]
           [] initializationPromise = "resolved" -> PollLoop(r, 0, isReady)
           [] OTHER -> Finish(r, Failure("WhatsApp authentication failed"))

(***************************************************************************)
(* Order controller: the handlers up to their first await.                 *)
(***************************************************************************)
\* A request arrives while none is in flight.
Accepting == running /\ req.pc = "idle" /\ Len(store) < MaxOrders

\* orderController.js:115-123: the prepaid branch calls razorpay.orders.create and
\* awaits it; nothing is handed to saveOrderToDatabase.
CreateRazorpayOrder_Persisted(r) == BeginSave([r EXCEPT !.gatewayCalls = 1])
CreateRazorpayOrder(r) == [r EXCEPT !.pc = "gateway", !.gatewayCalls = 1]

\* orderController.js:92-159
CreateOrder(b) ==
    /\ Accepting
    /\ LET r == NewReq("create", b)
       IN  req' =
             IF CreateRejects(b) THEN Respond(r, 400)
             ELSE IF b.paymentMethod = "prepaid" THEN CreateRazorpayOrder(r)
             ELSE IF b.paymentMethod = "cod" THEN BeginSave(r)
             ELSE Respond(r, 400)
    /\ UNCHANGED <<store, db, running, verifiedProofs>>
    /\ UNCHANGED sessionVars
    /\ UNCHANGED phoneVars
    /\ UNCHANGED destroyCall

\* orderController.js:123, 155-158: razorpay.orders.create rejects; the catch block
\* answers, and nothing calls the gateway again.
GatewayRejected_Retried(r) == [r EXCEPT !.gatewayResult = "failed", !.gatewayCalls = 2]
GatewayRejected(r) == Catch([r EXCEPT !.gatewayResult = "failed"], "gateway error")

\* orderController.js:123-129, 155-158: razorpay.orders.create settles
GatewayResult ==
    /\ running /\ req.pc = "gateway"
    /\ \E ok \in BOOLEAN :
         req' = IF ok THEN Respond([req EXCEPT !.gatewayResult = "created"], 200)
                ELSE GatewayRejected(req)
    /\ UNCHANGED <<store, db, running, verifiedProofs>>
    /\ UNCHANGED sessionVars
    /\ UNCHANGED phoneVars
    /\ UNCHANGED destroyCall

\* orderController.js:164-219
VerifyPayment(b) ==
    /\ Accepting
    /\ LET r == NewReq("verify", b)
           valid == ~VerifyRejects(b) /\ SignatureMatches(b)
       IN  /\ req' = IF valid THEN BeginSave(r) ELSE Respond(r, 400)
           /\ verifiedProofs' =
                IF valid
                THEN verifiedProofs \cup {<<b.razorpay_order_id, b.razorpay_payment_id>>}
                ELSE verifiedProofs
    /\ UNCHANGED <<store, db, running>>
    /\ UNCHANGED sessionVars
    /\ UNCHANGED phoneVars
    /\ UNCHANGED destroyCall

\* orderController.js:224-260
SaveOrder(b) ==
    /\ Accepting
    /\ LET r == NewReq("save", b)
       IN  req' = IF SaveRejects(b) THEN Respond(r, 400) ELSE BeginSave(r)
    /\ UNCHANGED <<store, db, running, verifiedProofs>>
    /\ UNCHANGED sessionVars
    /\ UNCHANGED phoneVars
    /\ UNCHANGED destroyCall

\* orderController.js:66: insertOne settles; on success sendNotifications starts
InsertResult ==
    /\ running /\ req.pc = "insert"
    /\ \E ok \in BOOLEAN :
         IF ok
         THEN /\ store' = Append(store, OrderData(req))
              /\ req' = [req EXCEPT !.inserted = TRUE, !.pc = "enter", !.ch = 1]
         ELSE /\ store' = store
              /\ req' = StoreFailure(req)
    /\ UNCHANGED <<db, running, verifiedProofs>>
    /\ UNCHANGED sessionVars
    /\ UNCHANGED phoneVars
    /\ UNCHANGED destroyCall

\* The answer has been delivered: the slot is free for the next request.
Close ==
    /\ running /\ req.pc = "done"
    /\ req' = NoReq
    /\ UNCHANGED <<store, db, running, verifiedProofs>>
    /\ UNCHANGED sessionVars
    /\ UNCHANGED phoneVars
    /\ UNCHANGED destroyCall

(***************************************************************************)
(* Notification steps of the request.                                      *)
(***************************************************************************)
\* A send is called: what the previous send returned and did is put aside.
StartSend(r) ==
    [r EXCEPT !.attempted = @ \cup {r.ch}, !.result = NoResult,
              !.numberExists = "unknown", !.transport = "notCalled",
              !.readyAtCall = FALSE]

\* whatsappController.js:214-216: sendMessage is called and runs to its first await
SendMessageEnter ==
    /\ running /\ req.pc = "enter" /\ req.ch \in {1, 2}
    /\ req' = WaitForReady(StartSend(req))
    /\ UNCHANGED <<store, db, running, verifiedProofs>>
    /\ UNCHANGED sessionVars
    /\ UNCHANGED phoneVars
    /\ UNCHANGED destroyCall

\* whatsappController.js:162-167: the one-second timer of the loop fires
PollWake ==
    /\ running /\ req.pc = "poll"
    /\ req' = PollLoop(req, req.poll + 1, isReady)
    /\ UNCHANGED <<store, db, running, verifiedProofs>>
    /\ UNCHANGED sessionVars
    /\ UNCHANGED phoneVars
    /\ UNCHANGED destroyCall

\* whatsappController.js:242-253: the check of numberExists
IsRegisteredUserReturned_Unchecked(r) == [r EXCEPT !.pc = "getChat"]
IsRegisteredUserReturned(r) ==
    IF r.numberExists = "false"
    THEN Finish(r, Failure("Phone number not registered on WhatsApp"))
    ELSE [r EXCEPT !.pc = "getChat"]

\* whatsappController.js:241-249, 281-288: isRegisteredUser settles
IsRegisteredResult ==
    /\ running /\ req.pc = "registered"
    /\ \E res \in {"throws", "false", "true"} :
         req' = IF res = "throws" THEN Finish(req, Failure("isRegisteredUser failed"))
                ELSE IsRegisteredUserReturned([req EXCEPT !.numberExists = res])
    /\ UNCHANGED <<store, db, running, verifiedProofs>>
    /\ UNCHANGED sessionVars
    /\ UNCHANGED phoneVars
    /\ UNCHANGED destroyCall

\* whatsappController.js:252-264: getChatById settles either way; client.sendMessage is called
GetChatResult ==
    /\ running /\ req.pc = "getChat"
    /\ req' = [req EXCEPT !.pc = "send", !.transport = "called", !.readyAtCall = isReady]
    /\ UNCHANGED <<store, db, running, verifiedProofs>>
    /\ UNCHANGED sessionVars
    /\ UNCHANGED phoneVars
    /\ UNCHANGED destroyCall

\* whatsappController.js:264-288: client.sendMessage settles
SendResult ==
    /\ running /\ req.pc = "send"
    /\ \/ \E result \in TransportResults :
            req' = Finish([req EXCEPT !.transport = "returned"], Success(MessageId(result)))
       \/ req' = Finish([req EXCEPT !.transport = "threw"], Failure("sendMessage failed"))
    /\ UNCHANGED <<store, db, running, verifiedProofs>>
    /\ UNCHANGED sessionVars
    /\ UNCHANGED phoneVars
    /\ UNCHANGED destroyCall

\* whatsappController.js:170-191: sendTextSMS is called.  require('twilio')(sid, token)
\* (line 175) is outside the try block: when it throws (credentials unset or
\* malformed) the error leaves sendTextSMS and sendNotifications and reaches the
\* handler's catch.
SendTextSMSEnter ==
    /\ running /\ req.pc = "enter" /\ req.ch = 3
    /\ \E twilioClient \in {"throws", "created"} :
         LET r == StartSend(req)
         IN  req' = IF twilioClient = "throws" THEN Catch(r, "twilio client error")
                    ELSE IF ~PhoneIsString(r)
                         THEN Finish(r, Failure("phoneNumber.replace is not a function"))
                    ELSE [r EXCEPT !.pc = "smsCreate"]
    /\ UNCHANGED <<store, db, running, verifiedProofs>>
    /\ UNCHANGED sessionVars
    /\ UNCHANGED phoneVars
    /\ UNCHANGED destroyCall

\* whatsappController.js:191-210: messages.create settles
SmsCreateResult ==
    /\ running /\ req.pc = "smsCreate"
    /\ \E ok \in BOOLEAN :
         req' = Finish(req, IF ok THEN Success(JsString(Sid1))
                            ELSE Failure("messages.create failed"))
    /\ UNCHANGED <<store, db, running, verifiedProofs>>
    /\ UNCHANGED sessionVars
    /\ UNCHANGED phoneVars
    /\ UNCHANGED destroyCall

(***************************************************************************)
(* config/db.js: connectToDatabase, started by the server and not awaited. *)
(***************************************************************************)
\* db.js:23-25
ConnectToDatabase ==
    /\ running /\ db = "unset"
    /\ db' = "connected"
    /\ UNCHANGED <<store, running, req, verifiedProofs>>
    /\ UNCHANGED sessionVars
    /\ UNCHANGED phoneVars
    /\ UNCHANGED destroyCall

\* The process has exited: its memory is gone, the store's records remain.
Exit(d) ==
    /\ running' = FALSE
    /\ req' = NoReq
    /\ client' = "null"
    /\ isReady' = FALSE
    /\ initializationPromise' = "rejected"
    /\ retry' = [pc |-> "none", i |-> 0]
    /\ destroyCall' = d
    /\ initializeLog' = [initializeLog EXCEPT !.authFailure = FALSE]
    /\ UNCHANGED <<store, db, verifiedProofs, initCalls, sessionCleared>>
    /\ UNCHANGED phoneVars

Exited == Exit(destroyCall)

\* db.js:26-29: process.exit(1)
ConnectFails ==
    /\ running /\ db = "unset"
    /\ Exited

(***************************************************************************)
(* whatsappController.js: the session.                                     *)
(***************************************************************************)
\* whatsappController.js:22: if (this.initializationPromise)
HasInitializationPromise_Never == FALSE
HasInitializationPromise == initializationPromise # "null"

\* whatsappController.js:21-119: initialize() is called again, any number of times.
\* No code of the repository does so after the constructor: the call is a step of
\* SessionSpec, where any caller may make it at any time.
\* With a promise in place it returns that promise (lines 22-24).  Otherwise it makes
\* a new promise, whose executor constructs a Client, registers the handlers and
\* starts initializeWithRetry (lines 26-103), or throws on the way and rejects
\* (lines 112-115).
Initialize ==
    /\ running
    /\ IF HasInitializationPromise
       THEN /\ initializeLog' = [initializeLog EXCEPT !.returned = "first"]
            /\ UNCHANGED <<client, isReady, initializationPromise, retry, initCalls>>
       ELSE \E executor \in {"runs", "throws"} :
              IF executor = "runs"
              THEN /\ client' = "constructed"
                   /\ initializationPromise' = "pending"
                   /\ retry' = [pc |-> "await", i |-> 0]
                   /\ initCalls' = initCalls + 1
                   /\ initializeLog' =
                        [initializeLog EXCEPT !.returned = "new", !.clients = @ + 1,
                                              !.loops = @ + 1]
                   /\ UNCHANGED isReady
              ELSE /\ initializationPromise' = "rejected"
                   /\ initializeLog' = [initializeLog EXCEPT !.returned = "new"]
                   /\ UNCHANGED <<client, isReady, retry, initCalls>>
    /\ UNCHANGED orderVars
    /\ UNCHANGED phoneVars
    /\ UNCHANGED destroyCall
    /\ UNCHANGED sessionCleared

\* The transport emits events while an initialize() is in flight or has succeeded,
\* and not once client.destroy() has closed it, until initialize() is called again.
TransportActive ==
    /\ client = "constructed" /\ retry.pc \in {"await", "done"}
    /\ ~(destroyCall.pc = "resolved" /\ destroyCall.initCalls = initCalls)

\* whatsappController.js:125-126: client.initialize() resolves; the loop breaks
InitializeResolves ==
    /\ running /\ retry.pc = "await"
    /\ retry' = [retry EXCEPT !.pc = "done"]
    /\ initializeLog' = [initializeLog EXCEPT !.resolved = @ + 1]
    /\ UNCHANGED orderVars
    /\ UNCHANGED phoneVars
    /\ UNCHANGED destroyCall
    /\ UNCHANGED <<client, isReady, initializationPromise, initCalls, sessionCleared>>

\* whatsappController.js:130  if (i === maxRetries - 1)
IsLastAttempt_Never(i) == FALSE
IsLastAttempt(i) == i = MaxRetries - 1

\* whatsappController.js:127-136: client.initialize() rejects.  After the last attempt
\* the error is thrown out of initializeWithRetry, whose promise nobody awaits
\* (line 103): initializationPromise stays as it is, and the rejection is unhandled,
\* which Node reports with a warning or, by default since version 15, ends the
\* process with.
InitializeRejects ==
    /\ running /\ retry.pc = "await"
    /\ IF ~IsLastAttempt(retry.i)
       THEN /\ retry' = [retry EXCEPT !.pc = "sleep"]
            /\ initializeLog' = [initializeLog EXCEPT !.rejected = @ + 1]
            /\ UNCHANGED orderVars
            /\ UNCHANGED phoneVars
            /\ UNCHANGED destroyCall
            /\ UNCHANGED <<client, isReady, initializationPromise, initCalls, sessionCleared>>
       ELSE \E unhandled \in {"warn", "exit"} :
              IF unhandled = "exit" THEN Exited
              ELSE /\ retry' = [retry EXCEPT !.pc = "failed"]
                   /\ initializeLog' = [initializeLog EXCEPT !.rejected = @ + 1]
                   /\ UNCHANGED orderVars
                   /\ UNCHANGED phoneVars
                   /\ UNCHANGED destroyCall
                   /\ UNCHANGED <<client, isReady, initializationPromise, initCalls,
                                  sessionCleared>>

\* whatsappController.js:139  if (i > 0)
ClearsSession_Always(i) == TRUE
ClearsSession(i) == i > 0

\* whatsappController.js:136-151, 122-125: the delay ends, the session directory is
\* deleted when i > 0, and the next attempt calls client.initialize()
RetryDelayElapsed ==
    /\ running /\ retry.pc = "sleep"
    /\ sessionCleared' = IF ClearsSession(retry.i) THEN sessionCleared + 1 ELSE sessionCleared
    /\ retry' = [pc |-> "await", i |-> retry.i + 1]
    /\ initCalls' = initCalls + 1
    /\ UNCHANGED orderVars
    /\ UNCHANGED phoneVars
    /\ UNCHANGED destroyCall
    /\ UNCHANGED <<client, isReady, initializationPromise, initializeLog>>

\* whatsappController.js:73-78: 'ready'.  resolve() settles the promise if it is
\* pending; a waitForReady that awaits it resumes in the same turn (line 162).
OnReady ==
    /\ running /\ TransportActive /\ ~isReady
    /\ isReady' = TRUE
    /\ initializationPromise' =
         IF initializationPromise = "pending" THEN "resolved" ELSE initializationPromise
    /\ req' = IF req.pc = "init" THEN PollLoop(req, 0, TRUE) ELSE req
    /\ initializeLog' = [initializeLog EXCEPT !.authFailure = FALSE]
    /\ UNCHANGED <<store, db, running, verifiedProofs>>
    /\ UNCHANGED <<client, retry, initCalls, sessionCleared>>
    /\ UNCHANGED phoneVars
    /\ UNCHANGED destroyCall

\* whatsappController.js:84-87: 'auth_failure'.  reject() settles the promise if it
\* is pending; a waitForReady that awaits it throws (line 159) into the catch of
\* sendMessage.  With nobody awaiting it (the constructor drops the promise, line 18)
\* the rejection is unhandled: a warning, or the end of the process.
OnAuthFailure ==
    /\ running /\ TransportActive
    /\ \/ /\ initializationPromise = "pending" /\ req.pc # "init"
          /\ Exited
       \/ /\ initializationPromise' =
               IF initializationPromise = "pending" THEN "rejected"
               ELSE initializationPromise
          /\ req' = IF req.pc = "init"
                    THEN Finish(req, Failure("WhatsApp authentication failed"))
                    ELSE req
          /\ initializeLog' = [initializeLog EXCEPT !.authFailure = isReady]
          /\ UNCHANGED <<store, db, running, verifiedProofs>>
          /\ UNCHANGED <<client, isReady, retry, initCalls, sessionCleared>>
          /\ UNCHANGED phoneVars
          /\ UNCHANGED destroyCall

\* whatsappController.js:89-92: 'disconnected'
OnDisconnected ==
    /\ running /\ TransportActive /\ isReady
    /\ isReady' = FALSE
    /\ initializeLog' = [initializeLog EXCEPT !.authFailure = FALSE]
    /\ UNCHANGED orderVars
    /\ UNCHANGED phoneVars
    /\ UNCHANGED destroyCall
    /\ UNCHANGED <<client, initializationPromise, retry, initCalls, sessionCleared>>

(***************************************************************************)
(* whatsappController.js: destroy() and the signal handlers.  A signal     *)
(* that arrives while a destroy() is awaited is left out.                  *)
(***************************************************************************)
\* whatsappController.js:356-367, 344-346: SIGINT or SIGTERM.  The handler calls
\* destroy(), which awaits client.destroy() when there is a client; with no client it
\* returns and the handler calls process.exit(0).
Signal ==
    /\ running /\ destroyCall.pc # "awaiting"
    /\ IF client = "null"
       THEN Exit([pc |-> "resolved", signal |-> TRUE, initCalls |-> initCalls])
       ELSE /\ destroyCall' = [pc |-> "awaiting", signal |-> TRUE, initCalls |-> 0]
            /\ UNCHANGED orderVars
            /\ UNCHANGED sessionVars
            /\ UNCHANGED phoneVars

\* whatsappController.js:344-350: destroy() is called by a module that imports the
\* service (it is exported, line 369).
Destroy ==
    /\ running /\ destroyCall.pc # "awaiting"
    /\ destroyCall' =
         IF client = "null"
         THEN [pc |-> "resolved", signal |-> FALSE, initCalls |-> initCalls]
         ELSE [pc |-> "awaiting", signal |-> FALSE, initCalls |-> 0]
    /\ UNCHANGED orderVars
    /\ UNCHANGED sessionVars
    /\ UNCHANGED phoneVars

\* whatsappController.js:346-349, 359-360: client.destroy() resolves; isReady is set
\* to false and destroy() returns; the signal handler then calls process.exit(0).
DestroyResolves ==
    /\ running /\ destroyCall.pc = "awaiting"
    /\ LET d == [destroyCall EXCEPT !.pc = "resolved", !.initCalls = initCalls]
       IN  IF destroyCall.signal THEN Exit(d)
           ELSE /\ destroyCall' = d
                /\ isReady' = FALSE
                /\ UNCHANGED orderVars
                /\ UNCHANGED <<client, initializationPromise, retry, initCalls, sessionCleared,
                               initializeLog>>
                /\ UNCHANGED phoneVars

\* whatsappController.js:346, 357-361: client.destroy() rejects.  destroy() throws to
\* its caller; the signal handler has no catch, so its promise is rejected and
\* process.exit(0) is not reached: Node warns and the process goes on, or ends the
\* process for the unhandled rejection.
DestroyRejects ==
    /\ running /\ destroyCall.pc = "awaiting"
    /\ LET d == [destroyCall EXCEPT !.pc = "rejected"]
       IN  \/ /\ destroyCall' = d
              /\ UNCHANGED orderVars
              /\ UNCHANGED sessionVars
              /\ UNCHANGED phoneVars
           \/ /\ destroyCall.signal
              /\ Exit(d)

(***************************************************************************)
(* The system.                                                             *)
(***************************************************************************)
\* The module is loaded: the constructor (whatsappController.js:14-19) has called
\* initialize(), which built the client and started the first attempt, or whose
\* try block threw (lines 112-115) and rejected the promise.
Init ==
    /\ store = <<>>
    /\ db = "unset"
    /\ running = TRUE
    /\ req = NoReq
    /\ verifiedProofs = {}
    /\ isReady = FALSE
    /\ sessionCleared = 0
    /\ phoneNumber = Absent /\ recipientNumber = Absent /\ chatId = Absent
    /\ recipientAgain = Absent /\ chatIdAgain = Absent
    /\ destroyCall = NoDestroy
    /\ \/ /\ client = "constructed"
          /\ initializationPromise = "pending"
          /\ retry = [pc |-> "await", i |-> 0]
          /\ initCalls = 1
          /\ initializeLog = [returned |-> "none", clients |-> 1, loops |-> 1,
                             rejected |-> 0, resolved |-> 0, authFailure |-> FALSE]
       \/ /\ client = "null"
          /\ initializationPromise = "rejected"
          /\ retry = [pc |-> "none", i |-> 0]
          /\ initCalls = 0
          /\ initializeLog = [returned |-> "none", clients |-> 0, loops |-> 0,
                             rejected |-> 0, resolved |-> 0, authFailure |-> FALSE]

RequestStep ==
    \/ GatewayResult
    \/ InsertResult
    \/ SendMessageEnter
    \/ PollWake
    \/ IsRegisteredResult
    \/ GetChatResult
    \/ SendResult
    \/ SendTextSMSEnter
    \/ SmsCreateResult

RetryStep ==
    \/ RetryDelayElapsed

Next ==
    \/ \E b \in CreateBodies : CreateOrder(b)
    \/ \E b \in VerifyBodies : VerifyPayment(b)
    \/ \E b \in SaveBodies : SaveOrder(b)
    \/ RequestStep
    \/ Close
    \/ ConnectToDatabase
    \/ ConnectFails
    \/ InitializeResolves
    \/ InitializeRejects
    \/ RetryStep
    \/ OnReady
    \/ OnAuthFailure
    \/ OnDisconnected

Spec == Init /\ [][Next]_vars

\* The request's own steps and the retry timer are always taken when they can be;
\* arrivals, the collaborators' events and the outcome of an attempt are not forced.
FairSpec == Spec /\ WF_vars(RequestStep) /\ WF_vars(RetryStep)

(***************************************************************************)
(* The session on its own, with callers of initialize() and destroy() and  *)
(* with the termination signals.  Requests read the session and never      *)
(* write it, so they are left out here.                                    *)
(***************************************************************************)
SessionNext ==
    \/ Initialize
    \/ InitializeResolves
    \/ InitializeRejects
    \/ RetryDelayElapsed
    \/ OnReady
    \/ OnAuthFailure
    \/ OnDisconnected
    \/ ConnectToDatabase
    \/ ConnectFails
    \/ Signal
    \/ Destroy
    \/ DestroyResolves
    \/ DestroyRejects

SessionSpec == Init /\ [][SessionNext]_vars

(***************************************************************************)
(* Phone numbers: the normalization of sendTextSMS and of sendMessage      *)
(* (whatsappController.js:178-186, 222-235), applied to every string of at *)
(* most MaxPhoneLen characters of "0", "1", "9", "+" and "-".              *)
(***************************************************************************)
PhoneChars == {48, 49, 57, 43, 45}

RECURSIVE Strings(_)
Strings(n) ==
    IF n = 0 THEN {<<>>}
    ELSE LET shorter == Strings(n - 1)
         IN  shorter \cup {Append(str, c) : str \in shorter, c \in PhoneChars}

IsDigit(c) == c \in 48 .. 57

\* phoneNumber.replace(/\D/g, '')
CleanNumber(str) == SelectSeq(str, IsDigit)

\* String.prototype.startsWith
StartsWith(str, prefix) ==
    Len(str) >= Len(prefix) /\ SubSeq(str, 1, Len(prefix)) = prefix

\* whatsappController.js:179-186: "91" is prefixed unless the digits start with it
SmsRecipientNumber(str) ==
    LET cleanNumber == CleanNumber(str)
        finalNumber == IF ~StartsWith(cleanNumber, <<57, 49>>) /\ ~StartsWith(cleanNumber, <<43>>)
                       THEN <<57, 49>> \o cleanNumber
                       ELSE cleanNumber
    IN  <<43>> \o finalNumber

\* whatsappController.js:223-235: a leading "0" is replaced by "91"; "@c.us" follows
ChatIdOf_AlwaysPrefix(str) == <<57, 49>> \o CleanNumber(str) \o <<64, 99, 46, 117, 115>>
ChatIdOf(str) ==
    LET cleanNumber == CleanNumber(str)
        finalNumber == IF StartsWith(cleanNumber, <<57, 49>>) THEN cleanNumber
                       ELSE IF StartsWith(cleanNumber, <<48>>)
                            THEN <<57, 49>> \o SubSeq(cleanNumber, 2, Len(cleanNumber))
                       ELSE <<57, 49>> \o cleanNumber
    IN  finalNumber \o <<64, 99, 46, 117, 115>>

PhoneInit ==
    /\ phoneNumber \in Strings(MaxPhoneLen)
    /\ recipientNumber = Absent /\ chatId = Absent
    /\ recipientAgain = Absent /\ chatIdAgain = Absent
    /\ destroyCall = NoDestroy
    /\ store = <<>> /\ db = "connected" /\ running = TRUE /\ req = NoReq
    /\ verifiedProofs = {}
    /\ client = "constructed" /\ isReady = TRUE /\ initializationPromise = "resolved"
    /\ retry = [pc |-> "done", i |-> 0] /\ initCalls = 1 /\ sessionCleared = 0
    /\ initializeLog = [returned |-> "none", clients |-> 1, loops |-> 1,
                             rejected |-> 0, resolved |-> 0, authFailure |-> FALSE]

\* whatsappController.js:178-186
SmsNormalize ==
    /\ recipientNumber = Absent
    /\ recipientNumber' = SmsRecipientNumber(phoneNumber)
    /\ UNCHANGED <<phoneNumber, chatId, recipientAgain, chatIdAgain>>
    /\ UNCHANGED <<store, db, running, req, verifiedProofs>>
    /\ UNCHANGED <<client, isReady, initializationPromise, retry, initCalls, sessionCleared,
                   initializeLog, destroyCall>>

\* whatsappController.js:222-235
ChatNormalize ==
    /\ chatId = Absent
    /\ chatId' = ChatIdOf(phoneNumber)
    /\ UNCHANGED <<phoneNumber, recipientNumber, recipientAgain, chatIdAgain>>
    /\ UNCHANGED <<store, db, running, req, verifiedProofs>>
    /\ UNCHANGED <<client, isReady, initializationPromise, retry, initCalls, sessionCleared,
                   initializeLog, destroyCall>>

\* sendTextSMS is handed the number it produced
SmsNormalizeAgain ==
    /\ recipientNumber # Absent /\ recipientAgain = Absent
    /\ recipientAgain' = SmsRecipientNumber(recipientNumber)
    /\ UNCHANGED <<phoneNumber, recipientNumber, chatId, chatIdAgain>>
    /\ UNCHANGED <<store, db, running, req, verifiedProofs>>
    /\ UNCHANGED <<client, isReady, initializationPromise, retry, initCalls, sessionCleared,
                   initializeLog, destroyCall>>

\* sendMessage is handed the number of the chat id it produced
ChatNormalizeAgain ==
    /\ chatId # Absent /\ chatIdAgain = Absent
    /\ chatIdAgain' = ChatIdOf(chatId)
    /\ UNCHANGED <<phoneNumber, recipientNumber, chatId, recipientAgain>>
    /\ UNCHANGED <<store, db, running, req, verifiedProofs>>
    /\ UNCHANGED <<client, isReady, initializationPromise, retry, initCalls, sessionCleared,
                   initializeLog, destroyCall>>

PhoneNext ==
    \/ SmsNormalize
    \/ ChatNormalize
    \/ SmsNormalizeAgain
    \/ ChatNormalizeAgain

PhoneSpec == PhoneInit /\ [][PhoneNext]_vars

(***************************************************************************)
(* Properties.                                                             *)
(***************************************************************************)
\* The request in flight has inserted nothing / exactly its own record.
NothingInserted == Len(store) = req.base /\ ~req.inserted
OwnRecordInserted ==
    Len(store) = req.base + 1 /\ req.inserted /\ store[Len(store)] = OrderData(req)

\* The sum of price x quantity over the items, as the specification words it.
RECURSIVE PriceTimesQuantity(_)
PriceTimesQuantity(elems) ==
    IF elems = <<>> THEN 0
    ELSE Head(elems).price * Head(elems).quantity + PriceTimesQuantity(Tail(elems))

\* C1: a prepaid record is in the store only if a verifyPayment request carried the
\* valid signature for its payment, and a verifyPayment request with a valid
\* signature and complete details, once answered, has inserted its record unless the
\* store refused the write.
C1_PrepaidIffVerified ==
    /\ \A k \in 1 .. Len(store) :
         store[k].paymentMethod = "prepaid" =>
           \E p \in verifiedProofs : p[2] = store[k].paymentId
    /\ ( /\ req.op = "verify" /\ req.pc = "done"
         /\ ~VerifyRejects(req.body)
         /\ GeneratedSignature(req.body) = req.body.razorpay_signature
         /\ ~req.storeFailed )
       => OwnRecordInserted

\* C2: a verifyPayment request whose signature differs from the recomputed HMAC is
\* answered 400 at once, with no record inserted and no send attempted.
C2_ForgedSignatureRejected ==
    ( /\ req.op = "verify"
      /\ ~VerifyRejects(req.body)
      /\ GeneratedSignature(req.body) # req.body.razorpay_signature )
    => /\ req.pc = "done" /\ req.status = 400
       /\ NothingInserted
       /\ req.attempted = {}

C2_Witness ==
    /\ req.op = "verify" /\ req.pc = "done" /\ req.status = 400
    /\ req.body.razorpay_signature = ForgedSig
    /\ req.body.razorpay_order_id = OrderId1 /\ req.body.razorpay_payment_id = PayId1
    /\ ~VerifyRejects(req.body)

\* C3: a createOrder request with a field missing, a bad address field, or a total
\* that differs from the sum of price x quantity over its items is answered 400 with
\* no gateway call, no insert and no send.
FailsStatedValidation(b) ==
    \/ MissingCreateFields(b)
    \/ BadAddressField(b)
    \/ b.total # PriceTimesQuantity(b.items.elems)

C3_InvalidCreateHasNoEffect ==
    (req.op = "create" /\ FailsStatedValidation(req.body))
    => /\ req.pc = "done" /\ req.status = 400
       /\ req.gatewayCalls = 0
       /\ NothingInserted
       /\ req.attempted = {}

\* C4 as stated: every cod createOrder request that passes validation, once answered,
\* has inserted exactly one record with status confirmed and paymentId null and has
\* dispatched the notifications.
ValidCod == req.op = "create" /\ req.body.paymentMethod = "cod" /\ ~CreateRejects(req.body)

C4_CodAlwaysInserts ==
    (ValidCod /\ req.pc = "done")
    => /\ OwnRecordInserted
       /\ store[Len(store)].status = "confirmed"
       /\ store[Len(store)].paymentId = Absent
       /\ req.attempted = Channels

\* C4 amended: a cod createOrder request that passes validation makes no gateway call;
\* when the database is connected and the store accepts the write it inserts exactly
\* one record with status confirmed and paymentId null, and it is answered only after
\* the three notifications have been dispatched; when the database is not connected
\* or the insert fails it inserts nothing and is answered 500.
C4_CodInsertsWhenStoreAccepts ==
    ValidCod
    => /\ req.gatewayCalls = 0
       /\ Len(store) <= req.base + 1
       /\ req.inserted =>
            /\ OwnRecordInserted
            /\ store[Len(store)].paymentMethod = "cod"
            /\ store[Len(store)].status = "confirmed"
            /\ store[Len(store)].paymentId = Absent
       /\ (req.pc = "done" /\ ~req.storeFailed) =>
            (req.inserted /\ req.attempted = Channels)
       /\ req.storeFailed => (NothingInserted /\ req.pc = "done" /\ req.status = 500)

C4_Witness ==
    /\ ValidCod /\ req.pc = "done" /\ req.status = 200
    /\ OwnRecordInserted /\ req.attempted = Channels

\* C5: on every path, a chat or SMS send of a request has started only if the store
\* has acknowledged the insert of that request's record.
C5_PersistBeforeNotify ==
    (req.attempted # {} \/ req.pc \in {"enter", "init", "poll", "registered",
                                      "getChat", "send", "smsCreate"})
    => OwnRecordInserted

C5_Witness ==
    /\ req.op = "save" /\ req.pc = "send" /\ req.ch = 1
    /\ req.attempted = {1} /\ OwnRecordInserted

\* C6: when the insert fails or the database is not connected, the request is
\* answered 500 and no send is attempted.
C6_StoreFailureAborts ==
    req.storeFailed
    => /\ req.pc = "done" /\ req.status = 500
       /\ req.attempted = {}
       /\ NothingInserted

C6_Witness ==
    /\ req.storeFailed /\ db = "connected" /\ req.op = "verify"
    /\ req.status = 500 /\ req.attempted = {}

\* C7: once the insert has succeeded, the answer is 200 with the three channels
\* reported, whatever happens during notification.
C7_InsertedMeansSuccess ==
    (req.inserted /\ req.pc = "done")
    => /\ req.status = 200
       /\ \A c \in Channels : req.report[c] \in {"Sent", "Failed"}

\* C8: every request whose insert succeeded is eventually answered, also when the
\* chat session never becomes ready (as long as the process runs).
C8_InsertedEventuallyAnswered ==
    (req.inserted /\ req.pc # "done") ~> (req.pc = "done" \/ ~running)

\* C9: when every startup attempt has failed and the session is not ready, a
\* sendMessage call that starts returns a failed result (as long as the process runs).
C9_SendFailsAfterRetriesExhausted ==
    \A c \in {1, 2} :
      (retry.pc = "failed" /\ ~isReady /\ req.pc = "enter" /\ req.ch = c)
      ~> (req.report[c] = "Failed" \/ ~running)

\* C10: waitForReady, called in any session state, terminates (as long as the process
\* runs).
InWaitForReady == req.pc \in {"init", "poll"}

C10_WaitForReadyTerminates == InWaitForReady ~> (~InWaitForReady \/ ~running)

\* C11: dispatch neither short-circuits nor raises: once a send has returned its
\* result the next send is attempted, whatever that result was, and a request whose
\* record was inserted is answered only after the three sends were attempted and each
\* was reported Sent or Failed.
C11_DispatchAttemptsEverySend ==
    /\ \A c \in {1, 2} :
         req.report[c] # "none" =>
           /\ req.report[c] \in {"Sent", "Failed"}
           /\ (c + 1) \in req.attempted \/ (req.pc = "enter" /\ req.ch = c + 1)
    /\ (req.inserted /\ req.pc = "done") =>
         /\ req.attempted = Channels
         /\ \A c \in Channels : req.report[c] \in {"Sent", "Failed"}

\* C12: a createOrder request with paymentMethod prepaid that passes validation calls
\* the gateway once and is answered with the gateway's result (200 with the intent, or
\* 500 when the gateway call fails); it inserts nothing and attempts no send.
ValidPrepaid ==
    req.op = "create" /\ req.body.paymentMethod = "prepaid" /\ ~CreateRejects(req.body)

C12_PrepaidIntentNotPersisted ==
    ValidPrepaid
    => /\ req.gatewayCalls = 1
       /\ req.pc \in {"gateway", "done"}
       /\ req.pc = "done" => req.status \in {200, 500}
       /\ NothingInserted /\ ~req.storeFailed
       /\ req.attempted = {} /\ req.report = NoReport

C12_Witness ==
    /\ ValidPrepaid /\ req.pc = "done" /\ req.status = 200
    /\ db = "connected" /\ req.gatewayCalls = 1 /\ NothingInserted

\* C13: every record of the store has a paymentId if and only if its paymentMethod is
\* prepaid and its status is confirmed.
C13_PaymentIdIffPrepaidConfirmed ==
    \A k \in 1 .. Len(store) :
      (store[k].paymentId # Absent)
      <=> (store[k].paymentMethod = "prepaid" /\ store[k].status = "confirmed")

\* C14: every record of the store has a total equal to the sum of price x quantity
\* over its items.
C14_StoredTotalMatchesItems ==
    \A k \in 1 .. Len(store) :
      store[k].items.kind = "array"
      /\ store[k].total = PriceTimesQuantity(store[k].items.elems)

\* C15: the store holds one record per confirmed order: no two records carry the same
\* payment proof (gateway order id and payment id).
C15_OneRecordPerProof ==
    \A j, k \in 1 .. Len(store) :
      (j # k /\ store[j].razorpayOrderId # Absent)
      => <<store[j].razorpayOrderId, store[j].paymentId>>
           # <<store[k].razorpayOrderId, store[k].paymentId>>

\* C16: whatever the number of initialize() calls and however they interleave with
\* session events and an attempt in flight, at most one chat client has been
\* constructed, at most one retry loop has been started (so the transport's
\* initialize has been called at most MaxRetries times), and every call has returned
\* the promise of the first.
C16_SingleSession ==
    /\ initializeLog.clients <= 1
    /\ initializeLog.loops <= 1
    /\ initCalls <= MaxRetries
    /\ initializeLog.returned \in {"none", "first"}

C16_Witness ==
    /\ running /\ initializeLog.returned = "first"
    /\ retry.pc = "await" /\ retry.i = 1
    /\ initializationPromise = "pending"
    /\ initializeLog.clients = 1

\* C17: when the session was Ready and a disconnected event has arrived, a new connect
\* attempt eventually starts: the transport's initialize is called again; the session
\* does not stay down (as long as the process runs).
DisconnectedAfterReady ==
    /\ running /\ ~isReady
    /\ initializationPromise = "resolved"
    /\ retry.pc = "done"

C17_DisconnectedReconnects ==
    DisconnectedAfterReady ~> (retry.pc = "await" \/ isReady \/ ~running)

\* C18: when isRegisteredUser has answered that the recipient is not registered,
\* sendMessage returns, without throwing, the failed result with the "not registered"
\* error, and the transport's sendMessage has not been called for that send.
C18_NotRegisteredFailsWithoutSend ==
    req.numberExists = "false"
    => /\ req.pc = "enter" /\ req.ch \in {2, 3}
       /\ req.result = Failure("Phone number not registered on WhatsApp")
       /\ ~req.result.success
       /\ req.report[req.ch - 1] = "Failed"
       /\ req.transport = "notCalled"

C18_Witness ==
    /\ req.numberExists = "false" /\ req.ch = 3 /\ req.pc = "enter"
    /\ req.report[1] = "Sent" /\ req.report[2] = "Failed"
    /\ req.transport = "notCalled"

\* C19: whenever the transport's sendMessage has returned without throwing, sendMessage
\* returns success = true with a messageId that is present (a non-empty string or the
\* transport's id object), also when the transport returned null, undefined or a
\* result without an id.
C19_SentHasMessageId ==
    req.transport = "returned"
    => /\ req.pc = "enter" /\ req.ch \in {2, 3}
       /\ req.result.success
       /\ Truthy(req.result.messageId)
       /\ req.result.messageId.t = "string" => Len(req.result.messageId.s) > 0
       /\ req.report[req.ch - 1] = "Sent"

C19_Witness ==
    /\ req.transport = "returned" /\ req.result.success
    /\ req.result.messageId = JsString(SynthesizedId)

\* C20: for every phone number string, sendTextSMS and sendMessage normalize it to the
\* same digits, which begin with the country code 91.
C20_SameNormalization ==
    (recipientNumber # Absent /\ chatId # Absent)
    => /\ CleanNumber(recipientNumber) = CleanNumber(chatId)
       /\ StartsWith(CleanNumber(chatId), <<57, 49>>)

\* C21: normalization is idempotent: for every phone number, the SMS rule applied to
\* the number it produced gives that number again, and so does the chat rule.
C21_NormalizationIdempotent ==
    /\ recipientAgain # Absent => recipientAgain = recipientNumber
    /\ chatIdAgain # Absent => chatIdAgain = chatId

C21_Witness ==
    /\ phoneNumber = <<48, 57, 45>>
    /\ recipientAgain = <<43, 57, 49, 48, 57>>
    /\ chatIdAgain = <<57, 49, 57, 64, 99, 46, 117, 115>>

\* C22: when the gateway call of a prepaid createOrder fails, the request is answered
\* 500 with the gateway's error message, the gateway has been called exactly once,
\* and nothing is inserted or sent.
C22_GatewayFailureNotRetried ==
    req.gatewayResult = "failed"
    => /\ req.op = "create" /\ req.body.paymentMethod = "prepaid"
       /\ req.pc = "done" /\ req.status = 500
       /\ req.error = "gateway error"
       /\ req.gatewayCalls = 1
       /\ NothingInserted /\ ~req.storeFailed
       /\ req.attempted = {} /\ req.report = NoReport

C22_Witness ==
    /\ req.gatewayResult = "failed" /\ req.status = 500
    /\ db = "connected" /\ isReady /\ Len(store) = 1

\* C26: the transport's initialize is called at most MaxRetries times in all, every
\* call after the first follows a failed one, and once a call has succeeded the loop
\* has ended with no further call.
C26_BoundedRetry ==
    /\ initCalls <= MaxRetries
    /\ initCalls <= initializeLog.rejected + 1
    /\ initializeLog.resolved >= 1 =>
         /\ initializeLog.resolved = 1
         /\ initCalls = initializeLog.rejected + 1
         /\ retry.pc \in {"done", "none"}

C26_Witness ==
    /\ running /\ retry.pc = "done" /\ initCalls = MaxRetries
    /\ initializeLog.rejected = 2 /\ initializeLog.resolved = 1

\* C27: the session directory is deleted at most once, and only when the second
\* connect attempt has failed too: not before the first attempt, not after the first
\* failure alone, and not after an attempt has succeeded.
C27_SessionClearedAfterSecondFailure ==
    /\ sessionCleared <= 1
    /\ sessionCleared = 1 => (initializeLog.rejected >= 2 /\ initCalls = MaxRetries)
    /\ (initializeLog.resolved >= 1 /\ initializeLog.rejected < 2) => sessionCleared = 0

C27_Witness ==
    /\ running /\ sessionCleared = 1
    /\ retry.pc = "await" /\ retry.i = 2 /\ initializeLog.rejected = 2

\* C24: the transport's sendMessage is invoked only while the session is Ready, also
\* when a disconnected event arrives between the readiness check of the send and its
\* delivery step.
C24_SendOnlyWhileReady ==
    req.transport # "notCalled" => req.readyAtCall


\* C23: when the process has ended after a termination signal, the handler's destroy()
\* had completed: the process ends only once the transport has been closed, also when
\* client.destroy() rejects or another exit path runs while it is awaited.
C23_ExitOnlyAfterDestroy ==
    (~running /\ destroyCall.signal) => destroyCall.pc = "resolved"

\* C25: once destroy() has completed the session is not Ready and the service makes
\* no further client.initialize() call, also while the retry loop of
\* initializeWithRetry is between two attempts.
C25_DestroyedStaysDown ==
    (running /\ destroyCall.pc = "resolved")
        => (~isReady /\ initCalls = destroyCall.initCalls)

\* C28: after an auth_failure event the session is not Ready until a later ready
\* event, also when the event arrives while the session is Ready.
C28_AuthFailureLeavesReady ==
    initializeLog.authFailure => ~isReady


=============================================================================
